---- MODULE Spec2Model ----
(***************************************************************************)
(* A model of components of diesel-gaussdb:                                *)
(*   - GaussDBCursor      (src/src/connection/cursor.rs)                   *)
(*   - QueryCache         (src/src/performance.rs)                         *)
(*   - GaussDBMetrics     (src/src/monitoring.rs)                          *)
(*   - COPY, execute_returning_count (src/src/connection/mod.rs)           *)
(*   - GaussDBRowIterator (src/src/connection/loading_mode.rs)             *)
(*   - WithClause         (src/src/query_builder/cte.rs)                   *)
(*   - Timestamp          (src/src/types/date_and_time.rs)                 *)
(* Each component has its own specification; the variables of the other    *)
(* components stay at their initial values.                                *)
(***************************************************************************)
EXTENDS Integers, Sequences, FiniteSets, TLC

VARIABLES
    \* ---- GaussDBCursor and the server it talks to
    feature,      \* "gaussdb" or "mock": the cfg(feature = "gaussdb") switch
    life,         \* "undeclared", "live" (a GaussDBCursor value exists), "dropped"
    name,         \* GaussDBCursor.name
    is_closed,    \* GaussDBCursor.is_closed
    sent,         \* the statements handed to the connection, in order
    srv,          \* the server's cursors (portals), by name
    ret,          \* what the latest cursor call did and returned
    declared,     \* per name: the cursors declared successfully so far
    \* ---- QueryCache
    max_size,     \* QueryCache.max_size
    ttl,          \* QueryCache.ttl, in clock ticks
    now,          \* the monotonic clock read by Instant::now()
    cache,        \* QueryCache.cache: key -> CachedQuery
    ops,          \* number of get/put calls made so far
    cret,         \* what the latest cache call did and returned
    hist,         \* per key: the latest put and whether evict_lru removed it
    hits,         \* number of get calls that returned a cached value
    \* ---- GaussDBMetrics
    metrics,      \* the AtomicU64 fields
    pc,           \* per thread: where it is inside a record_* call
    dur,          \* per thread: the duration argument of record_query_success
    ncalls,       \* per record method: calls started so far
    durSum,       \* sum of the durations passed to record_query_success
    snap,         \* the MetricsSnapshot being built by snapshot()
    \* ---- GaussDBConnection: COPY and execute_returning_count
    copy,         \* the latest execute_copy_from / execute_copy_to call
    exec,         \* the latest execute_returning_count call
    \* ---- GaussDBRowIterator
    rowit,        \* the iterator, its cursor on the server and its calls
    \* ---- query builder and types
    qb,           \* the WITH clause being built and its rendering
    ts            \* the latest Timestamp written and read back

cursorVars  == <<feature, life, name, is_closed, sent, srv, ret, declared>>
cacheVars   == <<max_size, ttl, now, cache, ops, cret, hist, hits>>
metricsVars == <<metrics, pc, dur, ncalls, durSum>>
restVars    == <<snap, copy, exec, rowit, qb, ts>>
vars == <<cursorVars, cacheVars, metricsVars, restVars>>

(***************************************************************************)
(* GaussDBCursor                                                           *)
(***************************************************************************)

\* Bounds of the cursor model.
MaxSent == 3
MaxRows == 1

CursorNames == {"c1", "c2"}
Counts      == {0, 1, 2}
Positions   == {"1", "LAST"}
Features    == {"gaussdb", "mock"}

NoPortal == [open |-> FALSE, rows |-> 0, pos |-> 0]

\* The statement texts built with format!().
declare_sql(n)      == [op |-> "DECLARE",   arg |-> "",          name |-> n]
fetch_sql(count, n) == [op |-> "FETCH",     arg |-> ToString(count), name |-> n]
fetch_all_sql(n)    == [op |-> "FETCH",     arg |-> "ALL",       name |-> n]
move_sql(p, n)      == [op |-> "MOVE",      arg |-> p,           name |-> n]
close_sql(n)        == [op |-> "CLOSE",     arg |-> "",          name |-> n]

Min(a, b) == IF a < b THEN a ELSE b

\* The server's answer to one statement. up = FALSE stands for a statement the
\* server did not carry out (connection lost, aborted transaction, ...).
\* nrows is the size of the result set of a newly declared cursor's query.
\* Result: [ok, rows (number of rows returned), srv (the portals afterwards)].
ServerExec(stmt, s, up, nrows) ==
    LET p == s[stmt.name]
        fail == [ok |-> FALSE, rows |-> 0, srv |-> s]
        at(q) == [s EXCEPT ![stmt.name] = q]
    IN  IF ~up THEN fail
        ELSE IF stmt.op = "DECLARE" THEN
            IF p.open THEN fail
            ELSE [ok |-> TRUE, rows |-> 0,
                  srv |-> at([open |-> TRUE, rows |-> nrows, pos |-> 0])]
        ELSE IF ~p.open THEN fail
        ELSE IF stmt.op = "CLOSE" THEN
            [ok |-> TRUE, rows |-> 0, srv |-> at(NoPortal)]
        ELSE IF stmt.op = "FETCH" /\ stmt.arg = "ALL" THEN
            [ok |-> TRUE, rows |-> p.rows - Min(p.pos, p.rows),
             srv |-> at([p EXCEPT !.pos = p.rows + 1])]
        ELSE IF stmt.op = "FETCH" /\ stmt.arg = "0" THEN
            \* FETCH 0 re-fetches the current row, if the cursor is on one
            [ok |-> TRUE, rows |-> IF p.pos >= 1 /\ p.pos <= p.rows THEN 1 ELSE 0,
             srv |-> s]
        ELSE IF stmt.op = "FETCH" THEN
            LET k == CHOOSE c \in Counts : ToString(c) = stmt.arg
                got == Min(k, p.rows - Min(p.pos, p.rows))
            IN  [ok |-> TRUE, rows |-> got,
                 srv |-> at([p EXCEPT !.pos = IF p.pos + k > p.rows
                                               THEN p.rows + 1 ELSE p.pos + k])]
        ELSE IF stmt.arg = "LAST" THEN
            [ok |-> TRUE, rows |-> 0, srv |-> at([p EXCEPT !.pos = p.rows])]
        ELSE
            [ok |-> TRUE, rows |-> 0,
             srv |-> at([p EXCEPT !.pos = IF p.pos + 1 > p.rows
                                           THEN p.rows + 1 ELSE p.pos + 1])]

Res(ok) == IF ok THEN "Ok" ELSE "Err"

\* GaussDBConnection::batch_execute: one statement to the server, Ok or Err.
batch_execute(stmt, s, up) == ServerExec(stmt, s, up, 0)

\* The outcome of a cursor method:
\*   res, rows : the QueryResult returned and the length of its vector
\*   closed    : self.is_closed afterwards
\*   stmts     : the statements handed to the connection
\*   srv       : the server's portals afterwards
Outcome(res, rows, closed, stmts, s) ==
    [res |-> res, rows |-> rows, closed |-> closed, stmts |-> stmts, srv |-> s]

\* fetch without its is_closed check.
fetch_unguarded(closed, n, count, feat, s, up) ==
    IF feat = "gaussdb" THEN
        LET r == ServerExec(fetch_sql(count, n), s, up, 0)
        IN  Outcome(Res(r.ok), r.rows, closed, <<fetch_sql(count, n)>>, r.srv)
    ELSE IF count > 0 THEN Outcome("Ok", 1, closed, <<>>, s)
    ELSE Outcome("Ok", 0, closed, <<>>, s)

\* GaussDBCursor::fetch
fetch(closed, n, count, feat, s, up) ==
    IF closed THEN Outcome("Err", 0, closed, <<>>, s)
    ELSE IF feat = "gaussdb" THEN
        LET r == ServerExec(fetch_sql(count, n), s, up, 0)
        IN  Outcome(Res(r.ok), r.rows, closed, <<fetch_sql(count, n)>>, r.srv)
    ELSE IF count > 0 THEN Outcome("Ok", 1, closed, <<>>, s)
    ELSE Outcome("Ok", 0, closed, <<>>, s)

\* GaussDBCursor::fetch_all
fetch_all(closed, n, feat, s, up) ==
    IF feat = "gaussdb" THEN
        LET r == ServerExec(fetch_all_sql(n), s, up, 0)
        IN  Outcome(Res(r.ok), r.rows, closed, <<fetch_all_sql(n)>>, r.srv)
    ELSE Outcome("Ok", 0, closed, <<>>, s)

\* GaussDBCursor::move_cursor
move_cursor(closed, n, position, s, up) ==
    IF closed THEN Outcome("Err", 0, closed, <<>>, s)
    ELSE LET r == batch_execute(move_sql(position, n), s, up)
         IN  Outcome(Res(r.ok), 0, closed, <<move_sql(position, n)>>, r.srv)

\* close returning early on a failed CLOSE (batch_execute(..)?), before the flag
\* is set.
close_on_success(closed, n, s, up) ==
    IF closed THEN Outcome("Ok", 0, closed, <<>>, s)
    ELSE LET r == batch_execute(close_sql(n), s, up)
         IN  Outcome(Res(r.ok), 0, r.ok, <<close_sql(n)>>, r.srv)

\* GaussDBCursor::close, up to its return (the value is dropped after it)
close(closed, n, s, up) ==
    IF closed THEN Outcome("Ok", 0, closed, <<>>, s)
    ELSE LET r == batch_execute(close_sql(n), s, up)
         IN  Outcome(Res(r.ok), 0, TRUE, <<close_sql(n)>>, r.srv)

\* Drop that closes without looking at is_closed.
drop_unchecked(closed, n, s, up) ==
    LET r == batch_execute(close_sql(n), s, up)
    IN  Outcome("Ok", 0, TRUE, <<close_sql(n)>>, r.srv)

\* Drop for GaussDBCursor
drop(closed, n, s, up) ==
    IF ~closed
    THEN LET r == batch_execute(close_sql(n), s, up)
         IN  Outcome("Ok", 0, TRUE, <<close_sql(n)>>, r.srv)
    ELSE Outcome("Ok", 0, closed, <<>>, s)

NoRet == [op |-> "none", res |-> "Ok", rows |-> 0, was_closed |-> FALSE,
          closed |-> FALSE, nsent |-> 0, srv_ok |-> TRUE]

\* The record kept of a call: what it returned, the value of is_closed it found
\* and the one it left, the number of statements it sent, and whether the server
\* was in a position to carry out the method's statement.
Called(op, o, srv_ok) ==
    [op |-> op, res |-> o.res, rows |-> o.rows, was_closed |-> is_closed,
     closed |-> o.closed, nsent |-> Len(o.stmts), srv_ok |-> srv_ok]

\* Whether the server carries out stmt now.
ServerOk(stmt, up) == ServerExec(stmt, srv, up, 0).ok

Apply(op, o, srv_ok) ==
    /\ Len(sent) + Len(o.stmts) <= MaxSent
    /\ sent' = sent \o o.stmts
    /\ srv' = o.srv
    /\ is_closed' = o.closed
    /\ ret' = Called(op, o, srv_ok)

\* GaussDBCursor::declare: the cursor exists only if DECLARE succeeded.
Declare ==
    /\ life \in {"undeclared", "dropped"}
    /\ Len(sent) < MaxSent
    /\ \E n \in CursorNames, up \in BOOLEAN, nrows \in 0..MaxRows :
          LET r == ServerExec(declare_sql(n), srv, up, nrows)
          IN  /\ sent' = Append(sent, declare_sql(n))
              /\ srv' = r.srv
              /\ ret' = [op |-> "declare", res |-> Res(r.ok), rows |-> 0,
                         was_closed |-> FALSE, closed |-> FALSE, nsent |-> 1,
                         srv_ok |-> r.ok]
              /\ IF r.ok
                 THEN /\ life' = "live" /\ name' = n /\ is_closed' = FALSE
                      /\ declared' = [declared EXCEPT ![n] = @ + 1]
                 ELSE UNCHANGED <<life, name, is_closed, declared>>
    /\ UNCHANGED <<feature, cacheVars, metricsVars, restVars>>

Fetch ==
    /\ life = "live"
    /\ \E count \in Counts, up \in BOOLEAN :
          Apply("fetch", fetch(is_closed, name, count, feature, srv, up),
                ServerOk(fetch_sql(count, name), up))
    /\ UNCHANGED <<feature, life, name, declared, cacheVars, metricsVars, restVars>>

FetchAll ==
    /\ life = "live"
    /\ \E up \in BOOLEAN :
          Apply("fetch_all", fetch_all(is_closed, name, feature, srv, up),
                ServerOk(fetch_all_sql(name), up))
    /\ UNCHANGED <<feature, life, name, declared, cacheVars, metricsVars, restVars>>

MoveCursor ==
    /\ life = "live"
    /\ \E position \in Positions, up \in BOOLEAN :
          Apply("move_cursor", move_cursor(is_closed, name, position, srv, up),
                ServerOk(move_sql(position, name), up))
    /\ UNCHANGED <<feature, life, name, declared, cacheVars, metricsVars, restVars>>

\* close(mut self) takes the cursor by value: when it returns, the value is
\* dropped, so Drop::drop runs on what close left behind.
Close ==
    /\ life = "live"
    /\ \E up \in BOOLEAN, up2 \in BOOLEAN :
          LET c == close(is_closed, name, srv, up)
              d == drop(c.closed, name, c.srv, up2)
          IN  /\ Len(sent) + Len(c.stmts) + Len(d.stmts) <= MaxSent
              /\ sent' = sent \o c.stmts \o d.stmts
              /\ srv' = d.srv
              /\ is_closed' = d.closed
              /\ ret' = [Called("close", c, ServerOk(close_sql(name), up)) EXCEPT
                            !.nsent = Len(c.stmts) + Len(d.stmts)]
    /\ life' = "dropped"
    /\ UNCHANGED <<feature, name, declared, cacheVars, metricsVars, restVars>>

\* The cursor goes out of scope without close().
Drop ==
    /\ life = "live"
    /\ \E up \in BOOLEAN :
          Apply("drop", drop(is_closed, name, srv, up), ServerOk(close_sql(name), up))
    /\ life' = "dropped"
    /\ UNCHANGED <<feature, name, declared, cacheVars, metricsVars, restVars>>

CursorNext ==
    \/ Declare
    \/ Fetch
    \/ FetchAll
    \/ MoveCursor
    \/ Close
    \/ Drop

(***************************************************************************)
(* QueryCache                                                              *)
(***************************************************************************)

\* Bounds of the cache model.
MaxTime == 2
MaxOps  == 4

\* The max_size and ttl (in clock ticks) a cache is created with.
MaxSizes == {0, 1, 2}
Ttls     == {0, 1, 3}

Keys == {"k1", "k2", "k3"}
Sqls == {"SELECT 1", "SELECT 2"}

None    == [some |-> FALSE, v |-> ""]
Some(v) == [some |-> TRUE, v |-> v]

Without(c, S) == [k \in (DOMAIN c) \ S |-> c[k]]

\* CachedQuery { sql, created_at: now, hit_count: 0, last_accessed: now }
CachedQuery(sql, t) ==
    [sql |-> sql, created_at |-> t, hit_count |-> 0, last_accessed |-> t]

\* QueryCache::new
new(m, d) == [cache |-> << >>, max_size |-> m, ttl |-> d]

\* get that still serves an entry put exactly ttl ago (<= in place of <).
get_inclusive(c, key, t) ==
    IF key \in DOMAIN c
    THEN IF t - c[key].created_at <= ttl
         THEN [res |-> Some(c[key].sql),
               cache |-> [c EXCEPT ![key].hit_count = @ + 1,
                                   ![key].last_accessed = t]]
         ELSE [res |-> None, cache |-> Without(c, {key})]
    ELSE [res |-> None, cache |-> c]

\* QueryCache::get at time t: [res, cache]
get(c, key, t) ==
    IF key \in DOMAIN c
    THEN IF t - c[key].created_at < ttl
         THEN [res |-> Some(c[key].sql),
               cache |-> [c EXCEPT ![key].hit_count = @ + 1,
                                   ![key].last_accessed = t]]
         ELSE [res |-> None, cache |-> Without(c, {key})]
    ELSE [res |-> None, cache |-> c]

\* QueryCache::cleanup_expired: the entries retained
cleanup_expired(c, t) ==
    Without(c, {k \in DOMAIN c : ~(t - c[k].created_at < ttl)})

\* evict_lru ordering by created_at: the oldest insertion goes.
oldest_created_keys(c) ==
    {k \in DOMAIN c : \A j \in DOMAIN c : c[k].created_at <= c[j].created_at}

\* QueryCache::evict_lru: the keys min_by_key(last_accessed) may return (the
\* HashMap's iteration order decides among equal instants)
lru_keys(c) ==
    {k \in DOMAIN c : \A j \in DOMAIN c : c[k].last_accessed <= c[j].last_accessed}

\* put that leaves an entry already cached under the key as it is.
put_keep_existing(c, key, sql, t, victim) ==
    LET c1 == cleanup_expired(c, t)
        ev == IF Cardinality(DOMAIN c1) >= max_size /\ DOMAIN c1 # {}
              THEN {victim} ELSE {}
        c2 == Without(c1, ev)
    IN  [cache |-> [k \in (DOMAIN c2) \cup {key} |->
                       IF k \in DOMAIN c2 THEN c2[k] ELSE CachedQuery(sql, t)],
         evicted |-> ev]

\* QueryCache::put at time t; victim is the key evict_lru picks when it runs on
\* a non-empty map. Result: [cache, evicted (the keys evict_lru removed)].
put(c, key, sql, t, victim) ==
    LET c1 == cleanup_expired(c, t)
        ev == IF Cardinality(DOMAIN c1) >= max_size /\ DOMAIN c1 # {}
              THEN {victim} ELSE {}
        c2 == Without(c1, ev)
    IN  [cache |-> [k \in (DOMAIN c2) \cup {key} |->
                       IF k = key THEN CachedQuery(sql, t) ELSE c2[k]],
         evicted |-> ev]

RECURSIVE SumHits(_, _)
SumHits(c, S) ==
    IF S = {} THEN 0
    ELSE LET k == CHOOSE x \in S : TRUE
         IN  c[k].hit_count + SumHits(c, S \ {k})

\* QueryCache::stats (hit_rate, a float derived from the other fields, is left out)
stats ==
    [size |-> Cardinality(DOMAIN cache), max_size |-> max_size,
     total_hits |-> SumHits(cache, DOMAIN cache)]

\* What is known of a key from the calls made: whether it was ever put, the
\* value and time of its latest put, the time of its latest access (that put or
\* a later successful get), and whether evict_lru removed it since.
NoHist == [put |-> FALSE, v |-> "", at |-> 0, acc |-> 0, evicted |-> FALSE]
NoCret == [op |-> "none", key |-> "", res |-> None, evicted |-> {}]

\* Time passes between calls (thread::sleep, other work).
Tick ==
    /\ now < MaxTime
    /\ now' = now + 1
    /\ UNCHANGED <<max_size, ttl, cache, ops, cret, hist, hits, cursorVars, metricsVars, restVars>>

Get ==
    /\ ops < MaxOps
    /\ \E key \in Keys :
          LET g == get(cache, key, now)
          IN  /\ cache' = g.cache
              /\ cret' = [op |-> "get", key |-> key, res |-> g.res, evicted |-> {}]
              /\ hits' = IF g.res.some THEN hits + 1 ELSE hits
              /\ hist' = IF g.res.some THEN [hist EXCEPT ![key].acc = now] ELSE hist
    /\ ops' = ops + 1
    /\ UNCHANGED <<max_size, ttl, now, cursorVars, metricsVars, restVars>>

Put ==
    /\ ops < MaxOps
    /\ \E key \in Keys, sql \in Sqls :
       \E victim \in lru_keys(cleanup_expired(cache, now)) \cup
                     (IF cleanup_expired(cache, now) = << >> THEN {key} ELSE {}) :
          LET p == put(cache, key, sql, now, victim)
          IN  /\ cache' = p.cache
              /\ cret' = [op |-> "put", key |-> key, res |-> None,
                          evicted |-> p.evicted]
              /\ hist' = [k \in Keys |->
                            IF k = key
                            THEN [put |-> TRUE, v |-> sql, at |-> now, acc |-> now,
                                  evicted |-> FALSE]
                            ELSE IF k \in p.evicted
                            THEN [hist[k] EXCEPT !.evicted = TRUE]
                            ELSE hist[k]]
    /\ ops' = ops + 1
    /\ UNCHANGED <<max_size, ttl, now, hits, cursorVars, metricsVars, restVars>>

CacheNext ==
    \/ Tick
    \/ Get
    \/ Put

(***************************************************************************)
(* GaussDBMetrics                                                          *)
(***************************************************************************)

\* Bounds of the metrics model.
NThreads == 2
MaxCalls == 3
MaxDur   == 2

Threads == 1..NThreads
Durations == 0..MaxDur

Counters == {"connections_established", "connection_failures",
             "queries_executed", "query_failures", "total_query_time_us",
             "transactions_started", "transactions_committed",
             "transactions_rolled_back"}

Methods == {"record_connection_success", "record_connection_failure",
            "record_query_success", "record_query_failure",
            "record_transaction_start", "record_transaction_commit",
            "record_transaction_rollback"}

\* A plain store of the operand in place of the atomic addition.
fetch_add_store(m, counter, val) ==
    [m EXCEPT ![counter] = val]

\* AtomicU64::fetch_add(val, Relaxed): one indivisible read-modify-write. The
\* counters stay far below 2^64 within the bounds, so the wrap-around of the
\* 64-bit addition is never taken.
fetch_add(m, counter, val) ==
    [m EXCEPT ![counter] = @ + val]

\* GaussDBMetrics::new (Default: every counter 0)
new_metrics == [c \in Counters |-> 0]

CallsMade == ncalls["record_connection_success"] + ncalls["record_connection_failure"]
           + ncalls["record_query_success"] + ncalls["record_query_failure"]
           + ncalls["record_transaction_start"] + ncalls["record_transaction_commit"]
           + ncalls["record_transaction_rollback"]

\* A record method whose body is one fetch_add(1) on its counter.
Record(t, method, counter) ==
    /\ pc[t] = "idle"
    /\ CallsMade < MaxCalls
    /\ metrics' = fetch_add(metrics, counter, 1)
    /\ ncalls' = [ncalls EXCEPT ![method] = @ + 1]

record_connection_success(t) ==
    /\ Record(t, "record_connection_success", "connections_established")
    /\ UNCHANGED <<pc, dur, durSum, cursorVars, cacheVars, restVars>>

record_connection_failure(t) ==
    /\ Record(t, "record_connection_failure", "connection_failures")
    /\ UNCHANGED <<pc, dur, durSum, cursorVars, cacheVars, restVars>>

\* record_query_success is two fetch_adds; other threads run in between.
record_query_success(t, duration) ==
    /\ Record(t, "record_query_success", "queries_executed")
    /\ pc' = [pc EXCEPT ![t] = "add_time"]
    /\ dur' = [dur EXCEPT ![t] = duration]
    /\ durSum' = durSum + duration
    /\ UNCHANGED <<cursorVars, cacheVars, restVars>>

record_query_success_time(t) ==
    /\ pc[t] = "add_time"
    /\ metrics' = fetch_add(metrics, "total_query_time_us", dur[t])
    /\ pc' = [pc EXCEPT ![t] = "idle"]
    /\ dur' = [dur EXCEPT ![t] = 0]
    /\ UNCHANGED <<ncalls, durSum, cursorVars, cacheVars, restVars>>

record_query_failure(t) ==
    /\ Record(t, "record_query_failure", "query_failures")
    /\ UNCHANGED <<pc, dur, durSum, cursorVars, cacheVars, restVars>>

record_transaction_start(t) ==
    /\ Record(t, "record_transaction_start", "transactions_started")
    /\ UNCHANGED <<pc, dur, durSum, cursorVars, cacheVars, restVars>>

record_transaction_commit(t) ==
    /\ Record(t, "record_transaction_commit", "transactions_committed")
    /\ UNCHANGED <<pc, dur, durSum, cursorVars, cacheVars, restVars>>

record_transaction_rollback(t) ==
    /\ Record(t, "record_transaction_rollback", "transactions_rolled_back")
    /\ UNCHANGED <<pc, dur, durSum, cursorVars, cacheVars, restVars>>

MetricsNext ==
    \E t \in Threads :
        \/ record_connection_success(t)
        \/ record_connection_failure(t)
        \/ \E d \in Durations : record_query_success(t, d)
        \/ record_query_success_time(t)
        \/ record_query_failure(t)
        \/ record_transaction_start(t)
        \/ record_transaction_commit(t)
        \/ record_transaction_rollback(t)

(***************************************************************************)
(* GaussDBMetrics::snapshot                                                *)
(***************************************************************************)

\* The fields of MetricsSnapshot in the order snapshot() loads them.
SnapshotOrder == <<"connections_established", "connection_failures",
                   "queries_executed", "query_failures", "total_query_time_us",
                   "transactions_started", "transactions_committed",
                   "transactions_rolled_back">>

\* No snapshot() call in progress. counted_time is the sum of the durations of
\* the queries counted in the queries_executed value the snapshot loaded.
NoSnapshot == [loaded |-> 0, m |-> new_metrics, counted_time |-> 0]

\* One load(Ordering::Relaxed) of snapshot(): the next field in order. The
\* record_* calls of other threads run between two loads.
snapshot_load ==
    /\ snap.loaded < Len(SnapshotOrder)
    /\ LET f == SnapshotOrder[snap.loaded + 1]
       IN snap' = [snap EXCEPT !.loaded = @ + 1,
                               !.m[f] = metrics[f],
                               !.counted_time =
                                   IF f = "queries_executed" THEN durSum ELSE @]
    /\ UNCHANGED <<metricsVars, cursorVars, cacheVars, copy, exec, rowit, qb, ts>>

SnapshotNext ==
    \/ MetricsNext
    \/ snapshot_load

(***************************************************************************)
(* GaussDBConnection::execute_copy_from / execute_copy_to                  *)
(***************************************************************************)

\* Bounds of the COPY model.
MaxChunks == 3
MaxExport == 2

\* What one call of data_callback returns: Ok(Some(data)), Ok(None), Err(e).
CallbackResults == {"Some", "None", "Err"}

\* A data callback: its results call by call; once they are used up it returns
\* Ok(None), as an exhausted iterator does.
Scripts == UNION {[1..n -> CallbackResults] : n \in 0..MaxChunks}

data_callback(script, k) == IF k <= Len(script) THEN script[k] ELSE "None"

\* The rows the server can hold and export.
ExportRows == {"1,Alice,100.50\n", "2,Bob,200.75\n"}
Exports == UNION {[1..n -> ExportRows] : n \in 0..MaxExport}

\* An output callback: the number of the call at which it returns Err
\* (0: it never does).
FailAts == 0..(MaxExport + 1)

CopyFromSql == "COPY copy_test_table FROM STDIN"
CopyToSql   == "COPY copy_test_table TO STDOUT"

\* A loop that drains the whole callback, whatever it returns.
copy_loop_drain(script, k, total_rows) ==
    [calls      |-> Len(script) + 1,
     total_rows |-> Cardinality({i \in 1..Len(script) : script[i] = "Some"}),
     res        |-> IF \E i \in 1..Len(script) : script[i] = "Err"
                    THEN "Err" ELSE "Ok"]

\* loop { match data_callback()? { Some(_) => total_rows += 1, None => break } }
\* from call number k on.
RECURSIVE copy_loop(_, _, _)
copy_loop(script, k, total_rows) ==
    LET r == data_callback(script, k)
    IN IF r = "Some"
       THEN copy_loop(script, k + 1, total_rows + 1)
       ELSE [calls      |-> k,
             total_rows |-> total_rows,
             res        |-> IF r = "None" THEN "Ok" ELSE "Err"]

\* No COPY call made yet.
NoCopy == [op |-> "none", feature |-> "gaussdb", built |-> FALSE,
           script |-> << >>, calls |-> 0, res |-> "Ok", n |-> 0,
           sent |-> << >>, srv_ok |-> TRUE,
           exported |-> << >>, received |-> << >>]

\* execute_copy_from: built is the result of query.to_sql; srv_ok is whether the
\* server carries out the COPY statement it is sent.
execute_copy_from(feat, built, script, srv_ok) ==
    IF ~built
    THEN [NoCopy EXCEPT !.op = "execute_copy_from", !.feature = feat,
                        !.script = script, !.srv_ok = srv_ok, !.res = "Err"]
    ELSE LET l == copy_loop(script, 1, 0)
         IN [NoCopy EXCEPT
               !.op = "execute_copy_from", !.feature = feat, !.built = TRUE,
               !.script = script, !.srv_ok = srv_ok,
               !.calls = l.calls,
               !.res = l.res,
               !.n = IF l.res = "Ok" THEN l.total_rows ELSE 0,
               !.sent = IF l.res = "Ok" /\ feat = "gaussdb"
                        THEN <<CopyFromSql>> ELSE << >>]

\* The chunks execute_copy_to hands to the output callback.
mock_data(feat) ==
    IF feat = "gaussdb"
    THEN <<"1,Alice,100.50\n", "2,Bob,200.75\n">>
    ELSE <<"mock,data,row1", "mock,data,row2">>

\* execute_copy_to: exported is what the server exports when it carries out the
\* COPY statement; fail_at is the output callback.
execute_copy_to(feat, built, fail_at, exported, srv_ok) ==
    IF ~built
    THEN [NoCopy EXCEPT !.op = "execute_copy_to", !.feature = feat,
                        !.srv_ok = srv_ok, !.res = "Err"]
    ELSE LET data == mock_data(feat)
             failed == fail_at \in 1..Len(data)
             calls == IF failed THEN fail_at ELSE Len(data)
             sql == IF feat = "gaussdb" THEN <<CopyToSql>> ELSE << >>
         IN [NoCopy EXCEPT
               !.op = "execute_copy_to", !.feature = feat, !.built = TRUE,
               !.srv_ok = srv_ok,
               !.calls = calls,
               !.res = IF failed THEN "Err" ELSE "Ok",
               !.n = IF failed THEN 0 ELSE Len(data),
               !.sent = sql,
               !.exported = IF sql # << >> /\ srv_ok THEN exported ELSE << >>,
               !.received = SubSeq(data, 1, calls)]

ExecuteCopyFrom ==
    /\ \E built \in BOOLEAN, script \in Scripts, srv_ok \in BOOLEAN :
          copy' = execute_copy_from(feature, built, script, srv_ok)
    /\ UNCHANGED <<cursorVars, cacheVars, metricsVars, snap, exec, rowit, qb, ts>>

ExecuteCopyTo ==
    /\ \E built \in BOOLEAN, fail_at \in FailAts, exported \in Exports,
          srv_ok \in BOOLEAN :
          copy' = execute_copy_to(feature, built, fail_at, exported, srv_ok)
    /\ UNCHANGED <<cursorVars, cacheVars, metricsVars, snap, exec, rowit, qb, ts>>

CopyNext ==
    \/ ExecuteCopyFrom
    \/ ExecuteCopyTo

(***************************************************************************)
(* GaussDBRowIterator                                                      *)
(***************************************************************************)

\* Bound of the row iterator model: the size of the query's result set.
MaxIterRows == 4

\* cursor_name = format!("row_iterator_{}", address of the connection): one
\* name per connection.
IterCursorName == "row_iterator_1"

\* The state of no iterator. The rows of the result set are numbered 1, 2, ...
\* in cursor order.
\*   life, is_finished : whether a GaussDBRowIterator exists, and its field
\*   nrows             : the size of the result set of the iterator's query
\*   srv               : the connection's cursor on the server
\*   op, res, row, nsent, none_before : the latest call, what it returned
\*       ("Some" with the row's number, "None" or "Err"), the number of
\*       statements it sent, and whether an earlier next() of this iterator had
\*       returned Ok(None)
\*   delivered         : the rows returned by next() so far
\*   none_seen         : whether a next() has returned Ok(None)
NoIter == [life |-> "none", is_finished |-> FALSE, nrows |-> 0,
           srv |-> [n \in {IterCursorName} |-> NoPortal],
           op |-> "none", res |-> "None", row |-> 0, nsent |-> 0,
           none_before |-> FALSE,
           delivered |-> << >>, none_seen |-> FALSE]

\* GaussDBRowIterator::new: DECLARE the cursor for the query.
iter_new(it, nrows, up) ==
    LET r == ServerExec(declare_sql(IterCursorName), it.srv, up, nrows)
    IN [NoIter EXCEPT !.life = IF r.ok THEN "live" ELSE "none",
                      !.nrows = IF r.ok THEN nrows ELSE 0,
                      !.srv = r.srv,
                      !.op = "new", !.res = IF r.ok THEN "Ok" ELSE "Err",
                      !.nsent = 1]

\* next() that asks the server every time.
iter_next_refetch(it, up) ==
    LET r == ServerExec(fetch_sql(1, IterCursorName), it.srv, up, 0)
        called == [it EXCEPT !.op = "next", !.none_before = it.none_seen,
                             !.nsent = 1, !.srv = r.srv, !.row = 0]
    IN IF ~r.ok THEN [called EXCEPT !.res = "Err"]
       ELSE IF r.rows = 0
       THEN [called EXCEPT !.res = "None", !.is_finished = TRUE,
                           !.none_seen = TRUE]
       ELSE [called EXCEPT !.res = "Some", !.row = r.srv[IterCursorName].pos,
                           !.delivered = Append(@, r.srv[IterCursorName].pos)]

\* GaussDBRowIterator::next
iter_next(it, up) ==
    IF it.is_finished
    THEN [it EXCEPT !.op = "next", !.none_before = it.none_seen,
                    !.nsent = 0, !.row = 0, !.res = "None",
                    !.none_seen = TRUE]
    ELSE LET r == ServerExec(fetch_sql(1, IterCursorName), it.srv, up, 0)
             called == [it EXCEPT !.op = "next", !.none_before = it.none_seen,
                                  !.nsent = 1, !.srv = r.srv, !.row = 0]
         IN IF ~r.ok THEN [called EXCEPT !.res = "Err"]
            ELSE IF r.rows = 0
            THEN [called EXCEPT !.res = "None", !.is_finished = TRUE,
                                !.none_seen = TRUE]
            ELSE [called EXCEPT !.res = "Some",
                                !.row = r.srv[IterCursorName].pos,
                                !.delivered = Append(@, r.srv[IterCursorName].pos)]

\* GaussDBRowIterator::is_finished
iter_is_finished(it) ==
    [it EXCEPT !.op = "is_finished",
               !.res = IF it.is_finished THEN "True" ELSE "False",
               !.row = 0, !.nsent = 0, !.none_before = it.none_seen]

\* Drop for GaussDBRowIterator: CLOSE the cursor, ignoring errors.
iter_drop(it, up) ==
    LET r == batch_execute(close_sql(IterCursorName), it.srv, up)
    IN [it EXCEPT !.life = "dropped", !.srv = r.srv, !.op = "drop",
                  !.res = "Ok", !.row = 0, !.nsent = 1,
                  !.none_before = it.none_seen]

IterNew ==
    /\ rowit.life # "live"
    /\ \E nrows \in 0..MaxIterRows, up \in BOOLEAN :
          rowit' = iter_new(rowit, nrows, up)
    /\ UNCHANGED <<cursorVars, cacheVars, metricsVars, snap, copy, exec, qb, ts>>

IterNext ==
    /\ rowit.life = "live"
    /\ \E up \in BOOLEAN : rowit' = iter_next(rowit, up)
    /\ UNCHANGED <<cursorVars, cacheVars, metricsVars, snap, copy, exec, qb, ts>>

IterIsFinished ==
    /\ rowit.life = "live"
    /\ rowit' = iter_is_finished(rowit)
    /\ UNCHANGED <<cursorVars, cacheVars, metricsVars, snap, copy, exec, qb, ts>>

IterDrop ==
    /\ rowit.life = "live"
    /\ \E up \in BOOLEAN : rowit' = iter_drop(rowit, up)
    /\ UNCHANGED <<cursorVars, cacheVars, metricsVars, snap, copy, exec, qb, ts>>

IterStep ==
    \/ IterNew
    \/ IterNext
    \/ IterIsFinished
    \/ IterDrop

(***************************************************************************)
(* CteDefinition and WithClause                                            *)
(***************************************************************************)

CteNames   == {"regional_sales", "employee_hierarchy"}
CteQueries == {"SELECT 1", "SELECT n + 1 FROM employee_hierarchy"}
ColumnLists == {<<"region">>, <<"region", "total">>}

\* column_names: Option<Vec<String>>
NoColumns == [some |-> FALSE, v |-> << >>]

\* CteDefinition::new
CteDefinition_new(n, query) ==
    [name |-> n, query |-> query, recursive |-> FALSE,
     column_names |-> NoColumns]

\* CteDefinition::recursive
recursive(c) == [c EXCEPT !.recursive = TRUE]

\* CteDefinition::with_columns
with_columns(c, columns) ==
    [c EXCEPT !.column_names = [some |-> TRUE, v |-> columns]]

\* cte() and recursive_cte()
cte(n, query) == CteDefinition_new(n, query)
recursive_cte(n, query) == recursive(CteDefinition_new(n, query))

\* WithClause::new, with() and WithClause::recursive
WithClause_new(ctes) == [ctes |-> ctes, has_recursive |-> FALSE]
with(ctes) == WithClause_new(ctes)
WithClause_recursive(w) == [w EXCEPT !.has_recursive = TRUE]

\* The column list pushed between the name and " AS (".
RECURSIVE push_columns(_, _)
push_columns(columns, i) ==
    IF i > Len(columns) THEN << >>
    ELSE (IF i > 1 THEN <<", ">> ELSE << >>) \o <<columns[i]>>
         \o push_columns(columns, i + 1)

\* QueryFragment::walk_ast for CteDefinition: the strings pushed, in order.
walk_ast_cte(c) ==
    <<c.name>>
    \o (IF c.column_names.some
        THEN <<"(">> \o push_columns(c.column_names.v, 1) \o <<")">>
        ELSE << >>)
    \o <<" AS (", c.query, ")">>

\* QueryFragment::walk_ast for WithClause
walk_ast_with(w) ==
    <<"WITH ">>
    \o (IF w.has_recursive THEN <<"RECURSIVE ">> ELSE << >>)
    \o walk_ast_cte(w.ctes)

\* Nothing built yet. stage: "none", "cte" (a CteDefinition), "with" (a
\* WithClause holding it), "sql" (the clause rendered).
NoQb == [stage |-> "none",
         w |-> WithClause_new(CteDefinition_new("regional_sales", "SELECT 1")),
         sql |-> << >>]

CallCte ==
    /\ \E n \in CteNames, query \in CteQueries :
          qb' = [NoQb EXCEPT !.stage = "cte", !.w.ctes = cte(n, query)]
    /\ UNCHANGED <<cursorVars, cacheVars, metricsVars, snap, copy, exec, rowit, ts>>

CallRecursiveCte ==
    /\ \E n \in CteNames, query \in CteQueries :
          qb' = [NoQb EXCEPT !.stage = "cte", !.w.ctes = recursive_cte(n, query)]
    /\ UNCHANGED <<cursorVars, cacheVars, metricsVars, snap, copy, exec, rowit, ts>>

CallRecursive ==
    /\ qb.stage = "cte"
    /\ qb' = [qb EXCEPT !.w.ctes = recursive(@)]
    /\ UNCHANGED <<cursorVars, cacheVars, metricsVars, snap, copy, exec, rowit, ts>>

CallWithColumns ==
    /\ qb.stage = "cte"
    /\ \E columns \in ColumnLists :
          qb' = [qb EXCEPT !.w.ctes = with_columns(@, columns)]
    /\ UNCHANGED <<cursorVars, cacheVars, metricsVars, snap, copy, exec, rowit, ts>>

CallWith ==
    /\ qb.stage = "cte"
    /\ qb' = [qb EXCEPT !.stage = "with", !.w = with(qb.w.ctes)]
    /\ UNCHANGED <<cursorVars, cacheVars, metricsVars, snap, copy, exec, rowit, ts>>

CallWithClauseRecursive ==
    /\ qb.stage = "with"
    /\ qb' = [qb EXCEPT !.w = WithClause_recursive(@)]
    /\ UNCHANGED <<cursorVars, cacheVars, metricsVars, snap, copy, exec, rowit, ts>>

WalkAst ==
    /\ qb.stage = "with"
    /\ qb' = [qb EXCEPT !.stage = "sql", !.sql = walk_ast_with(qb.w)]
    /\ UNCHANGED <<cursorVars, cacheVars, metricsVars, snap, copy, exec, rowit, ts>>

QbNext ==
    \/ CallCte
    \/ CallRecursiveCte
    \/ CallRecursive
    \/ CallWithColumns
    \/ CallWith
    \/ CallWithClauseRecursive
    \/ WalkAst

(***************************************************************************)
(* GaussDBConnection::execute_returning_count                              *)
(***************************************************************************)

\* Bound of the model: the number of rows a statement selects or affects.
MaxAffected == 3

\* SQL texts, as the words they are made of (" " is leading white space).
ExecSqls == {
    <<"SELECT", "*", "FROM", "t">>,
    <<" ", "select", "1">>,
    <<"WITH", "x", "AS", "(SELECT 1)", "SELECT", "*", "FROM", "x">>,
    <<"WITH", "x", "AS", "(SELECT 1)", "UPDATE", "t", "SET", "a = 1">>,
    <<"with", "x", "AS", "(SELECT 1)", "DELETE", "FROM", "t", "RETURNING", "id">>,
    <<"INSERT", "INTO", "t", "VALUES", "(1)">>,
    <<" ", "update", "t", "SET", "a = 1">>,
    <<"DELETE", "FROM", "t", "RETURNING", "id">> }

\* str::to_uppercase, on one word.
to_uppercase(word) ==
    CASE word = "select" -> "SELECT"
      [] word = "with"   -> "WITH"
      [] word = "update" -> "UPDATE"
      [] OTHER           -> word

\* str::trim: the text without its leading and trailing white space.
RECURSIVE trim(_)
trim(sql) ==
    IF sql = << >> THEN sql
    ELSE IF Head(sql) = " " THEN trim(Tail(sql))
    ELSE IF sql[Len(sql)] = " " THEN trim(SubSeq(sql, 1, Len(sql) - 1))
    ELSE sql

\* str::starts_with
starts_with(sql, word) == sql # << >> /\ to_uppercase(Head(sql)) = word

\* What the statement is to the server: data-modifying or a query, with or
\* without RETURNING.
IsModifying(sql) ==
    \E i \in 1..Len(sql) : to_uppercase(sql[i]) \in {"INSERT", "UPDATE", "DELETE"}
HasReturning(sql) == \E i \in 1..Len(sql) : sql[i] = "RETURNING"

\* Client::query: the rows the statement returns. n is the number of rows the
\* statement selects or affects.
server_query(sql, n, up) ==
    [ok |-> up,
     rows |-> IF ~up THEN 0
              ELSE IF IsModifying(sql) /\ ~HasReturning(sql) THEN 0
              ELSE n]

\* Client::execute: the number in the server's command tag.
server_execute(sql, n, up) ==
    [ok |-> up, rows_affected |-> IF up THEN n ELSE 0]

\* No call made yet.
NoExec == [op |-> "none", sql |-> << >>, n |-> 0, built |-> FALSE,
           via |-> "none", res |-> "Ok", count |-> 0]

\* execute_returning_count: built is the result of collect_binds and to_sql.
execute_returning_count(feat, built, sql, n, up) ==
    LET called == [NoExec EXCEPT !.op = "execute_returning_count",
                                 !.sql = sql, !.n = n, !.built = built]
    IN IF ~built THEN [called EXCEPT !.res = "Err"]
       ELSE IF feat = "gaussdb"
       THEN IF \/ starts_with(trim(sql), "SELECT")
               \/ starts_with(trim(sql), "WITH")
            THEN LET r == server_query(sql, n, up)
                 IN [called EXCEPT !.via = "query", !.res = Res(r.ok),
                                   !.count = r.rows]
            ELSE LET r == server_execute(sql, n, up)
                 IN [called EXCEPT !.via = "execute", !.res = Res(r.ok),
                                   !.count = r.rows_affected]
       ELSE LET r == server_execute(sql, n, up)
            IN [called EXCEPT !.via = "execute", !.res = Res(r.ok),
                              !.count = r.rows_affected]

ExecuteReturningCount ==
    /\ \E built \in BOOLEAN, sql \in ExecSqls, n \in 0..MaxAffected,
          up \in BOOLEAN :
          exec' = execute_returning_count(feature, built, sql, n, up)
    /\ UNCHANGED <<cursorVars, cacheVars, metricsVars, snap, copy, rowit, qb, ts>>

ExecNext ==
    \/ ExecuteReturningCount

(***************************************************************************)
(* ToSql / FromSql <Timestamp> for NaiveDateTime                           *)
(***************************************************************************)

\* Bound of the model: the instants lie within MaxSecs seconds of 2000-01-01.
MaxSecs == 3

\* Unix timestamp of 2000-01-01 00:00:00 UTC
PG_EPOCH == 946684800

\* A NaiveDateTime: secs is and_utc().timestamp(), the whole seconds since
\* 1970 rounded towards the past; nanos is the part of a second after it.
SubsecNanos == {0, 1, 999, 1000, 1999, 500000000, 999999000, 999999999}
DateTimes == [secs : (PG_EPOCH - MaxSecs)..(PG_EPOCH + MaxSecs),
              nanos : SubsecNanos]

\* timestamp_subsec_micros
timestamp_subsec_micros(dt) == dt.nanos \div 1000

\* The / and % of Rust's integers: the quotient is rounded towards zero and
\* the remainder has the sign of the dividend.
RustDiv(a, b) == IF a >= 0 THEN a \div b ELSE -((-a) \div b)
RustRem(a, b) == a - b * RustDiv(a, b)

\* write_i64::<NetworkEndian>: the k low bytes of n in two's complement, the
\* most significant first.
RECURSIVE be_bytes(_, _)
be_bytes(n, k) ==
    IF k = 0 THEN << >> ELSE be_bytes(n \div 256, k - 1) \o <<n % 256>>

write_i64(n) == be_bytes(n, 8)

\* The number whose base-256 digits are the bytes, or their complements.
RECURSIVE digits(_, _, _)
digits(bytes, complement, acc) ==
    IF bytes = << >> THEN acc
    ELSE digits(Tail(bytes), complement,
                acc * 256 + (IF complement THEN 255 - Head(bytes)
                             ELSE Head(bytes)))

\* read_i64::<NetworkEndian>
read_i64(bytes) ==
    IF bytes[1] >= 128 THEN -1 - digits(bytes, TRUE, 0)
    ELSE digits(bytes, FALSE, 0)

\* `x as u32` for an i64 x: x modulo 2^32, kept as its two 16-bit halves.
as_u32(x) == [hi |-> (x \div 65536) % 65536, lo |-> x % 65536]

\* DateTime::from_timestamp(secs, nsecs).map(naive_utc): None when nsecs is
\* 2_000_000_000 (= 30517 * 65536 + 37888) or more, or when it is a leap
\* second's nanosecond outside the last second of a minute.
from_timestamp(secs, nsecs) ==
    IF nsecs.hi > 30517 \/ (nsecs.hi = 30517 /\ nsecs.lo >= 37888)
    THEN [some |-> FALSE, dt |-> [secs |-> 0, nanos |-> 0]]
    ELSE LET n == nsecs.hi * 65536 + nsecs.lo
         IN IF n >= 1000000000 /\ secs % 60 # 59
            THEN [some |-> FALSE, dt |-> [secs |-> 0, nanos |-> 0]]
            ELSE [some |-> TRUE, dt |-> [secs |-> secs, nanos |-> n]]

\* ToSql<Timestamp, GaussDB> for NaiveDateTime: the eight bytes written.
to_sql(dt) ==
    LET unix_timestamp == dt.secs
        microseconds == (unix_timestamp - PG_EPOCH) * 1000000
                        + timestamp_subsec_micros(dt)
    IN write_i64(microseconds)

\* FromSql<Timestamp, GaussDB> for NaiveDateTime
from_sql(bytes) ==
    LET microseconds == read_i64(bytes)
        seconds == RustDiv(microseconds, 1000000) + PG_EPOCH
        nanoseconds == RustRem(microseconds, 1000000) * 1000
        r == from_timestamp(seconds, as_u32(nanoseconds))
    IN [res |-> IF r.some THEN "Ok" ELSE "Err", dt |-> r.dt]

\* Nothing written yet. stage: "none", "written" (to_sql done), "read"
\* (from_sql done on the bytes written).
NoTs == [stage |-> "none", dt |-> [secs |-> PG_EPOCH, nanos |-> 0],
         bytes |-> << >>, res |-> "Ok",
         out |-> [secs |-> 0, nanos |-> 0]]

ToSql ==
    /\ \E dt \in DateTimes :
          ts' = [NoTs EXCEPT !.stage = "written", !.dt = dt, !.bytes = to_sql(dt)]
    /\ UNCHANGED <<cursorVars, cacheVars, metricsVars, snap, copy, exec, rowit, qb>>

FromSql ==
    /\ ts.stage = "written"
    /\ LET r == from_sql(ts.bytes)
       IN ts' = [ts EXCEPT !.stage = "read", !.res = r.res, !.out = r.dt]
    /\ UNCHANGED <<cursorVars, cacheVars, metricsVars, snap, copy, exec, rowit, qb>>

TsNext ==
    \/ ToSql
    \/ FromSql

(***************************************************************************)
(* Initial states and specifications                                       *)
(***************************************************************************)


RestIdle ==
    /\ snap = NoSnapshot
    /\ copy = NoCopy
    /\ exec = NoExec
    /\ rowit = NoIter
    /\ qb = NoQb
    /\ ts = NoTs

CursorIdle ==
    /\ feature = "gaussdb"
    /\ life = "undeclared"
    /\ name = "c1"
    /\ is_closed = FALSE
    /\ sent = << >>
    /\ srv = [n \in CursorNames |-> NoPortal]
    /\ ret = NoRet
    /\ declared = [n \in CursorNames |-> 0]

CacheIdle ==
    /\ max_size = 1
    /\ ttl = 1
    /\ now = 0
    /\ cache = << >>
    /\ ops = 0
    /\ cret = NoCret
    /\ hist = [k \in Keys |-> NoHist]
    /\ hits = 0

MetricsIdle ==
    /\ metrics = new_metrics
    /\ pc = [t \in Threads |-> "idle"]
    /\ dur = [t \in Threads |-> 0]
    /\ ncalls = [m \in Methods |-> 0]
    /\ durSum = 0

\* A connection on which no cursor has been declared yet, in either build.
CursorInit ==
    /\ feature \in Features
    /\ life = "undeclared"
    /\ name = "c1"
    /\ is_closed = FALSE
    /\ sent = << >>
    /\ srv = [n \in CursorNames |-> NoPortal]
    /\ ret = NoRet
    /\ declared = [n \in CursorNames |-> 0]
    /\ CacheIdle
    /\ MetricsIdle
    /\ RestIdle

\* A GaussDBCursor value as a method receives it: the struct's fields take any
\* of their values. is_closed = TRUE is the value close() and drop() leave in the
\* struct; callers outside the module cannot hold such a value, because close()
\* takes the cursor by value.
CursorApiInit ==
    /\ feature \in Features
    /\ life = "live"
    /\ name \in CursorNames
    /\ is_closed \in BOOLEAN
    /\ sent = << >>
    /\ \E open \in BOOLEAN, nrows \in 0..MaxRows :
          srv = [n \in CursorNames |->
                   IF n = name THEN [open |-> open, rows |-> nrows, pos |-> 0]
                   ELSE NoPortal]
    /\ ret = NoRet
    /\ declared = [n \in CursorNames |-> 0]
    /\ CacheIdle
    /\ MetricsIdle
    /\ RestIdle

\* QueryCache::new(max_size, ttl) for every small max_size and ttl.
CacheInit ==
    /\ max_size \in MaxSizes
    /\ ttl \in Ttls
    /\ now = 0
    /\ cache = new(max_size, ttl).cache
    /\ ops = 0
    /\ cret = NoCret
    /\ hist = [k \in Keys |-> NoHist]
    /\ hits = 0
    /\ CursorIdle
    /\ MetricsIdle
    /\ RestIdle

MetricsInit ==
    /\ MetricsIdle
    /\ CursorIdle
    /\ CacheIdle
    /\ RestIdle

SpecCursor    == CursorInit /\ [][CursorNext]_vars
SpecCursorApi == CursorApiInit /\ [][CursorNext]_vars
SpecCache     == CacheInit /\ [][CacheNext]_vars
SpecMetrics   == MetricsInit /\ [][MetricsNext]_vars
SpecSnapshot  == MetricsInit /\ [][SnapshotNext]_vars
SpecCopy      == CursorInit /\ [][CopyNext]_vars
SpecIter      == MetricsInit /\ [][IterStep]_vars
SpecQb        == MetricsInit /\ [][QbNext]_vars
SpecExec      == CursorInit /\ [][ExecNext]_vars
SpecTs        == MetricsInit /\ [][TsNext]_vars

(***************************************************************************)
(* Properties of GaussDBCursor                                             *)
(***************************************************************************)

ClosedFetchMoveRejected ==
    (ret.op \in {"fetch", "move_cursor"} /\ ret.was_closed)
        => (ret.res = "Err" /\ ret.nsent = 0)

\* fetch or move_cursor has been called on a closed cursor whose statement the
\* server would have carried out, and nothing was sent.
ClosedFetchMoveWitness ==
    /\ ret.op \in {"fetch", "move_cursor"}
    /\ ret.was_closed
    /\ ret.srv_ok
    /\ ret.res = "Err"
    /\ sent = << >>

\* C3: when close() returns on a cursor that was open, is_closed is true
\* whether the server carried out CLOSE or not, and close() returns Err exactly
\* when the CLOSE failed.
CloseMarksClosed ==
    (ret.op = "close" /\ ~ret.was_closed)
        => (ret.closed /\ (ret.res = "Err" <=> ~ret.srv_ok))

\* close() on an open cursor whose CLOSE failed: Err returned, flag set.
CloseFailedWitness ==
    /\ ret.op = "close"
    /\ ~ret.was_closed
    /\ ~ret.srv_ok
    /\ ret.res = "Err"
    /\ ret.closed

NCloses(n) == Cardinality({i \in 1..Len(sent) : sent[i] = close_sql(n)})

\* C4: every successfully declared cursor gets exactly one CLOSE for its name:
\* none while it lives, one once close() or Drop has ended it (Drop after
\* close() adds none).
ExactlyOneClose ==
    \A n \in CursorNames :
        NCloses(n) = declared[n] - (IF life = "live" /\ name = n THEN 1 ELSE 0)

\* A declared cursor was fetched from, ended by close() and then dropped: the
\* one CLOSE sent is that of close().
OneClosePerCursorWitness ==
    /\ life = "dropped"
    /\ ret.op = "close"
    /\ ret.nsent = 1
    /\ declared[name] = 1
    /\ NCloses(name) = 1
    /\ Len(sent) = 3
    /\ sent[3] = close_sql(name)

(***************************************************************************)
(* Properties of QueryCache                                                *)
(***************************************************************************)

\* C5: after any sequence of get and put on a cache created with max_size m,
\* stats().size never exceeds m.
SizeWithinMax == stats.size <= stats.max_size

\* A get or put call is the step that counts up ops; cret' tells which.
IsGet == ops' # ops /\ cret'.op = "get"
IsPut == ops' # ops /\ cret'.op = "put"

\* The cache holds max_size entries, each put less than ttl ago.
FullUnexpired ==
    /\ Cardinality(DOMAIN cache) = max_size
    /\ \A k \in DOMAIN cache : now - hist[k].at < ttl

\* evict_lru removed exactly one entry in this step, one whose latest access is
\* the oldest among the cached entries.
EvictedOneLRU ==
    \E e \in DOMAIN cache :
        /\ cret'.evicted = {e}
        /\ \A j \in DOMAIN cache : hist[e].acc <= hist[j].acc

\* C6 as stated: a put on a cache holding max_size unexpired entries evicts
\* exactly one entry, the least recently used one.
PutOnFullEvictsLRU ==
    [][(IsPut /\ FullUnexpired) => EvictedOneLRU]_vars

\* C6 amended: the same for max_size >= 1 (an empty cache of max_size 0 has
\* nothing to evict).
PutOnFullEvictsLRUNonZero ==
    [][(IsPut /\ FullUnexpired /\ max_size >= 1) => EvictedOneLRU]_vars

\* A put on a full cache of two evicted the entry that was inserted later than
\* the surviving one, which a get had accessed since.
EvictLRUWitness ==
    /\ cret.op = "put"
    /\ max_size = 2
    /\ \E e \in Keys \ DOMAIN cache, j \in DOMAIN cache \ {cret.key} :
          /\ cret.evicted = {e}
          /\ hist[e].evicted
          /\ hist[e].at > hist[j].at
          /\ hist[e].acc < hist[j].acc
          /\ now - hist[j].at < ttl

\* C7: a get for a key whose cached entry was put at least ttl ago returns None
\* and removes the entry; a get that returns a value returns one put less than
\* ttl ago.
ExpiredGetMisses ==
    [][IsGet =>
          /\ (/\ cret'.key \in DOMAIN cache
              /\ now - hist[cret'.key].at >= ttl)
                 => (cret'.res = None /\ cret'.key \notin DOMAIN cache')
          /\ cret'.res.some
                 => (hist[cret'.key].put /\ now - hist[cret'.key].at < ttl)]_vars

\* One put, then after ttl > 0 has passed one get of the same key: the get
\* missed and the entry is gone.
ExpiredGetWitness ==
    /\ cret.op = "get"
    /\ cret.res = None
    /\ ops = 2
    /\ ttl > 0
    /\ hist[cret.key].put
    /\ now - hist[cret.key].at >= ttl
    /\ cache = << >>

\* C8: get(k) returns Some(v) exactly when v is the value of the latest
\* put(k, _), that put was less than ttl ago and evict_lru has not removed the
\* entry since; otherwise (never put included) it returns None.
GetReturnsLatestPut ==
    [][IsGet =>
          LET h == hist[cret'.key]
          IN  cret'.res = IF h.put /\ now - h.at < ttl /\ ~h.evicted
                          THEN Some(h.v) ELSE None]_vars

\* A get returned the value of the latest put of its key while another key,
\* put less than ttl ago, had been evicted.
GetLatestPutWitness ==
    /\ cret.op = "get"
    /\ cret.res = Some(hist[cret.key].v)
    /\ cret.res = Some("SELECT 2")
    /\ \E e \in Keys \ {cret.key} :
          hist[e].put /\ hist[e].evicted /\ now - hist[e].at < ttl

\* C9: stats().total_hits equals the number of get calls so far that returned a
\* cached value.
TotalHitsCountsAllHits == stats.total_hits = hits

(***************************************************************************)
(* Properties of GaussDBMetrics                                            *)
(***************************************************************************)

\* The counter each record method adds one to.
CounterOf(m) ==
    CASE m = "record_connection_success"   -> "connections_established"
      [] m = "record_connection_failure"   -> "connection_failures"
      [] m = "record_query_success"        -> "queries_executed"
      [] m = "record_query_failure"        -> "query_failures"
      [] m = "record_transaction_start"    -> "transactions_started"
      [] m = "record_transaction_commit"   -> "transactions_committed"
      [] m = "record_transaction_rollback" -> "transactions_rolled_back"

AllDone == \A t \in Threads : pc[t] = "idle"

\* C10: with record_* calls made concurrently by several threads, once every
\* call has completed the counter of each record method equals the number of
\* calls made to that method (no increment lost, none landing on another
\* method's counter); total_query_time_us, which has no record method of its
\* own, holds the sum of the durations given to record_query_success.
RecordsCounted ==
    AllDone =>
        /\ \A m \in Methods : metrics[CounterOf(m)] = ncalls[m]
        /\ metrics["total_query_time_us"] = durSum

\* Two record_query_success calls with non-zero durations and one
\* record_query_failure have completed.
RecordsCountedWitness ==
    /\ AllDone
    /\ ncalls["record_query_success"] = 2
    /\ ncalls["record_query_failure"] = 1
    /\ metrics["queries_executed"] = 2
    /\ metrics["query_failures"] = 1
    /\ metrics["total_query_time_us"] = 3

(***************************************************************************)
(* Properties of GaussDBMetrics::snapshot                                  *)
(***************************************************************************)

\* C11: a snapshot holds the counters of a single point in time: its
\* total_query_time_us includes the duration of every query counted in its
\* queries_executed, even while other threads call record_query_success.
SnapshotTimeCoversCountedQueries ==
    snap.loaded = Len(SnapshotOrder)
        => snap.m["total_query_time_us"] >= snap.counted_time

(***************************************************************************)
(* Properties of execute_copy_from and execute_copy_to                     *)
(***************************************************************************)

\* C13: execute_copy_from returns an error when the COPY FROM statement fails
\* on the server.
CopyFromServerFailureIsErr ==
    (copy.op = "execute_copy_from" /\ copy.sent # << >> /\ ~copy.srv_ok)
        => copy.res = "Err"

\* The number of the first call at which the callback returns a result in S.
FirstIn(script, S) ==
    CHOOSE k \in 1..(Len(script) + 1) :
        /\ data_callback(script, k) \in S
        /\ \A j \in 1..(k - 1) : data_callback(script, j) \notin S

\* C14 as stated: execute_copy_from invokes the data callback until it first
\* returns None, never again afterwards, and returns the number of Some chunks
\* the callback produced.
CopyFromCallsUntilNone ==
    copy.op = "execute_copy_from"
        => /\ copy.calls = FirstIn(copy.script, {"None"})
           /\ copy.res = "Ok"
           /\ copy.n = copy.calls - 1

\* C14: once the COPY statement is built, execute_copy_from invokes the data
\* callback until it first returns None or an error and never again afterwards;
\* stopped by None it returns the number of Some chunks the callback produced,
\* stopped by an error it returns an error. When the statement cannot be built
\* the callback is not invoked and an error is returned.
CopyFromCallsUntilNoneOrErr ==
    copy.op = "execute_copy_from"
        => IF copy.built
           THEN LET k == FirstIn(copy.script, {"None", "Err"})
                IN /\ copy.calls = k
                   /\ data_callback(copy.script, k) = "None"
                        => (copy.res = "Ok" /\ copy.n = k - 1)
                   /\ data_callback(copy.script, k) = "Err"
                        => copy.res = "Err"
           ELSE copy.calls = 0 /\ copy.res = "Err"

\* A callback that yields one chunk, then None, and would yield another chunk
\* if asked again: it was asked twice and the call returned 1.
CopyFromStopsAtNoneWitness ==
    /\ copy.op = "execute_copy_from"
    /\ copy.script = <<"Some", "None", "Some">>
    /\ copy.calls = 2
    /\ copy.res = "Ok"
    /\ copy.n = 1

\* C15: execute_copy_to returns the number of rows the server exported, and
\* the output callback receives exactly the exported data, in order.
CopyToDeliversExport ==
    (copy.op = "execute_copy_to" /\ copy.res = "Ok")
        => /\ copy.n = Len(copy.exported)
           /\ copy.received = copy.exported

(***************************************************************************)
(* Properties of GaussDBRowIterator                                        *)
(***************************************************************************)

\* C16: next() returns the rows one at a time in cursor order and Ok(None)
\* only after the last of them; once Ok(None) has been returned, is_finished()
\* is true and every later next() returns Ok(None) without sending a FETCH.
RowsInOrderThenNone ==
    /\ \A i \in 1..Len(rowit.delivered) : rowit.delivered[i] = i
    /\ (rowit.op = "next" /\ rowit.res = "Some")
          => rowit.row = Len(rowit.delivered)
    /\ rowit.none_seen
          => /\ rowit.is_finished
             /\ Len(rowit.delivered) = rowit.nrows
    /\ (rowit.op = "next" /\ rowit.none_before)
          => (rowit.res = "None" /\ rowit.nsent = 0)
    /\ (rowit.op = "is_finished" /\ rowit.none_before)
          => rowit.res = "True"

\* Both rows of a result set were returned, then Ok(None), and a further
\* next() returned Ok(None) again.
RowsThenNoneTwiceWitness ==
    /\ rowit.life = "live"
    /\ rowit.op = "next"
    /\ rowit.none_before
    /\ rowit.delivered = <<1, 2>>
    /\ rowit.res = "None"

(***************************************************************************)
(* Properties of GaussDBCursor::fetch                                      *)
(***************************************************************************)

\* C17: for every count, fetch(count) on an open cursor returns an empty
\* vector only when the cursor has no more rows to fetch, that is, when
\* fetch(1) called in its place would have returned no row either.
EmptyFetchMeansNoMoreRows ==
    [][(/\ ret'.op = "fetch"
        /\ ~ret'.was_closed
        /\ ret'.res = "Ok"
        /\ ret'.rows = 0)
          => fetch(FALSE, name, 1, feature, srv, TRUE).rows = 0]_vars

(***************************************************************************)
(* Properties of the WITH clause                                           *)
(***************************************************************************)

\* C18: a CTE definition marked recursive, by CteDefinition::recursive() or by
\* recursive_cte(), placed in a WITH clause is rendered as
\* WITH RECURSIVE <name> ... AS (...).
RecursiveCteRendersRecursive ==
    (qb.stage = "sql" /\ qb.w.ctes.recursive)
        => /\ Len(qb.sql) >= 3
           /\ SubSeq(qb.sql, 1, 3) = <<"WITH ", "RECURSIVE ", qb.w.ctes.name>>

(***************************************************************************)
(* Properties of execute_returning_count                                   *)
(***************************************************************************)

\* C19: execute_returning_count returns the number of rows the server reports
\* as affected for every data-modifying statement, however its SQL text
\* begins, and the number of returned rows for a SELECT.
CountIsServerCount ==
    (exec.op = "execute_returning_count" /\ exec.res = "Ok")
        => exec.count = exec.n

(***************************************************************************)
(* Properties of the Timestamp conversions                                 *)
(***************************************************************************)

\* C20: for every NaiveDateTime, also before 2000-01-01 and with a non-zero
\* sub-second part, from_sql of the eight bytes written by to_sql yields the
\* original instant truncated to microseconds.
TimestampRoundTrip ==
    ts.stage = "read"
        => /\ ts.res = "Ok"
           /\ ts.out = [secs |-> ts.dt.secs,
                        nanos |-> ts.dt.nanos - (ts.dt.nanos % 1000)]

====
